---- MODULE Spec2Model ----
(***************************************************************************)
(* Model of the file monitor service of src/main.py: a watchdog observer   *)
(* thread running ObserverWard's handlers, the module-level file_queue,    *)
(* the worker thread, the sqlite table "files", the HTTP status handlers   *)
(* and the shutdown block of __main__.                                     *)
(***************************************************************************)
EXTENDS Integers, Sequences, FiniteSets, TLC

VARIABLES
    fs,          \* the watched directory: file name -> [kind, data]
    evq,         \* the observer's queue of filesystem events not yet dispatched
    observing,   \* the observer's dispatch loop is running (not yet stop()ped)
    epc,         \* the observer thread's position: "idle" | "sleep"
    epath,       \* try_size's path while it sleeps
    start_size,  \* try_size's start_size while it sleeps
    file_queue,  \* the module-level queue.Queue
    wpc,         \* the worker's position
    wpath,       \* the worker's local path
    werr,        \* the worker's str(e) inside the except branch
    wres,        \* the worker's local lines / word_count
    rows,        \* the table files, in id order
    clock,       \* datetime.now()
    faultsleft,  \* sqlite3 errors the store may still raise
    mpc,         \* the main thread's position
    spc,         \* the /stats handler's position
    sloc,        \* the /stats handler's locals total, ok, failed
    resp,        \* the last HTTP response produced
    fsleft,      \* filesystem operations the environment may still perform
    puts,        \* history: every value put on file_queue, in order
    gets,        \* history: every value the worker got from file_queue, in order
    acks,        \* history: number of task_done calls
    stable       \* history: paths of events whose two size reads succeeded and agreed

vars == <<fs, evq, observing, epc, epath, start_size, file_queue, wpc, wpath, werr,
          wres, rows, clock, faultsleft, mpc, spc, sloc, resp, fsleft, puts, gets,
          acks, stable>>

(***************************************************************************)
(* Bounds of the model.                                                    *)
(***************************************************************************)
MaxFsOps == 3
MaxFaults == 1
MaxHttpFsOps == 2
MaxLimit == 2
MaxLiveFsOps == 2

(***************************************************************************)
(* Values.                                                                 *)
(***************************************************************************)
\* Python's None: the sentinel of the shutdown block and the defaults of inserting.
\* Every path of an event is a non-empty string.
None == <<>>
NoInt == -1
NoStr == "None"

WATCH_PATH == <<"w">>

Name1 == <<"t","e","s","t","_","1",".","t","x","t">>
NameNotes == <<"n","o","t","e","s",".","t","x","t">>
NameNewline == <<"t","e","s","t","_","1",".","t","x","t","\n">>
Names == {Name1, NameNotes, NameNewline}

PathOf(name) == WATCH_PATH \o <<"/">> \o name
Paths == {PathOf(n) : n \in Names}

\* File contents: text, and one content holding a byte that is not UTF-8.
ContentAB == <<"a"," ","b","\n","c","\n">>
ContentBad == <<"a","\\xff">>
Contents == {ContentAB, ContentBad}
Grown(c) == c \o <<"d">>

Absent == [kind |-> "absent", data |-> <<>>]
Dir == [kind |-> "dir", data |-> <<>>]
File(c) == [kind |-> "file", data |-> c]

(***************************************************************************)
(* ObserverWard.try_size: the filter and the size reads.                   *)
(***************************************************************************)
Digits == {"0","1","2","3","4","5","6","7","8","9"}

RECURSIVE LastSlash(_, _)
LastSlash(p, i) == IF i = 0 THEN 0 ELSE IF p[i] = "/" THEN i ELSE LastSlash(p, i - 1)

\* os.path.basename(path): what follows the last "/".
Basename(p) == SubSeq(p, LastSlash(p, Len(p)) + 1, Len(p))

\* test_ , one or more digits, .txt and nothing else.
FullPattern(s) ==
    /\ Len(s) >= 10
    /\ SubSeq(s, 1, 5) = <<"t","e","s","t","_">>
    /\ \A i \in 6..(Len(s) - 4) : s[i] \in Digits
    /\ SubSeq(s, Len(s) - 3, Len(s)) = <<".","t","x","t">>

\* re.match(r'^test_\d+\.txt$', s): a match from the start of s; "$" matches at
\* the end of s and also just before a newline that ends s.
ReMatch(s) ==
    \/ FullPattern(s)
    \/ /\ Len(s) > 0
       /\ s[Len(s)] = "\n"
       /\ FullPattern(SubSeq(s, 1, Len(s) - 1))

\* The condition of line 53 under which try_size goes on.
PassesFilter(path) == ReMatch(Basename(path))

NameOf(path) == Basename(path)

\* os.path.getsize(path) raises OSError when the path does not exist. The size
\* of a file is the length of its content; a directory's size does not change.
SizeFails(f, path) == f[NameOf(path)].kind = "absent"
GetSize(f, path) == Len(f[NameOf(path)].data)

\* Variants of Stabilized: the comparison inverted, and the comparison left out.
StabilizedInverted(start, end) == start # end
StabilizedAlways(start, end) == TRUE

\* Line 59 negated: the two sizes agree and try_size reaches file_queue.put.
Stabilized(start, end) == start = end

(***************************************************************************)
(* worker: reading a file.                                                 *)
(***************************************************************************)
Whitespace == {" ", "\n"}

\* len(lines) of a text: one per "\n", and one for an unterminated last line.
CountLines(c) ==
    Cardinality({i \in 1..Len(c) : c[i] = "\n"})
        + (IF Len(c) > 0 /\ c[Len(c)] # "\n" THEN 1 ELSE 0)

\* len(text.split()): the runs of non-whitespace characters.
CountWords(c) ==
    Cardinality({i \in 1..Len(c) :
        /\ c[i] \notin Whitespace
        /\ (i = 1 \/ c[i - 1] \in Whitespace)})

\* A variant of OpenError: a missing file is read as an empty one.
OpenErrorMissingAsEmpty(f, path) ==
    IF path = None THEN "TypeError: expected str, bytes or os.PathLike object, not NoneType"
    ELSE IF f[Basename(path)].kind = "dir" THEN "[Errno 21] Is a directory"
    ELSE IF \E i \in 1..Len(f[Basename(path)].data) : f[Basename(path)].data[i] = "\\xff"
         THEN "'utf-8' codec can't decode byte 0xff"
    ELSE "None"

\* open(path, 'r', encoding='utf-8') and the reads raise for these.
OpenError(f, path) ==
    IF path = None THEN "TypeError: expected str, bytes or os.PathLike object, not NoneType"
    ELSE IF f[NameOf(path)].kind = "absent" THEN "[Errno 2] No such file or directory"
    ELSE IF f[NameOf(path)].kind = "dir" THEN "[Errno 21] Is a directory"
    ELSE IF \E i \in 1..Len(f[NameOf(path)].data) : f[NameOf(path)].data[i] = "\\xff"
         THEN "'utf-8' codec can't decode byte 0xff"
    ELSE NoStr

\* f.readlines() reads from the file position to the end and leaves the position
\* at the end; f.read() returns what follows the position.
Readlines(c, pos) == [n |-> CountLines(SubSeq(c, pos + 1, Len(c))), pos |-> Len(c)]
Read(c, pos) == SubSeq(c, pos + 1, Len(c))

\* Lines 160-162: both reads on the one file object f.
ReadFile(c) ==
    LET r == Readlines(c, 0)
    IN  [lines |-> r.n, word_count |-> CountWords(Read(c, r.pos))]

(***************************************************************************)
(* The table files and its three operations.                               *)
(***************************************************************************)
\* The INSERT raises sqlite3.IntegrityError when a constraint of the table is
\* violated. CREATE TABLE declares id as the primary key, which AUTOINCREMENT
\* fills, and no constraint on path.
IntegrityError(t, path) == FALSE

\* A variant of NewRow: processed_at is set whatever the status.
NewRowAlwaysProcessed(t, now, path, status, lines, word_count, error) ==
    [id |-> Len(t) + 1, path |-> path, status |-> status, lines |-> lines,
     word_count |-> word_count, error |-> error, created_at |-> now,
     processed_at |-> now]

NewRow(t, now, path, status, lines, word_count, error) ==
    [id |-> Len(t) + 1, path |-> path, status |-> status, lines |-> lines,
     word_count |-> word_count, error |-> error, created_at |-> now,
     processed_at |-> IF status = "OK" THEN now ELSE NoInt]

UpdateRow(r, now, path, status, lines, word_count, error) ==
    IF r.path = path
    THEN [r EXCEPT !.status = status, !.lines = lines, !.word_count = word_count,
                   !.error = error,
                   !.processed_at = IF status = "OK" THEN now ELSE NoInt]
    ELSE r

\* inserting(path, status, lines, word_count, error) at time now.
Inserting(t, now, path, status, lines, word_count, error) ==
    IF IntegrityError(t, path)
    THEN [i \in 1..Len(t) |-> UpdateRow(t[i], now, path, status, lines, word_count, error)]
    ELSE Append(t, NewRow(t, now, path, status, lines, word_count, error))

\* A variant of LastFiles: ORDER BY id ASC.
LastFilesAscending(t, limit) ==
    [k \in 1..(IF limit < Len(t) THEN limit ELSE Len(t)) |-> t[k]]

\* ORDER BY id DESC LIMIT limit.
LastFiles(t, limit) ==
    [k \in 1..(IF limit < Len(t) THEN limit ELSE Len(t)) |-> t[Len(t) + 1 - k]]

\* A variant of CountFailed: the status literal misspelt.
CountFailedMisspelt(t) == Cardinality({i \in 1..Len(t) : t[i].status = "Failed"})

\* The three COUNT(*) queries of stats.
CountAll(t) == Len(t)
CountOk(t) == Cardinality({i \in 1..Len(t) : t[i].status = "OK"})
CountFailed(t) == Cardinality({i \in 1..Len(t) : t[i].status = "FAILED"})

\* A variant of QSize: whether the queue holds anything.
QSizeNonEmpty(q) == IF q = <<>> THEN 0 ELSE 1

\* A variant of QPut: queue.LifoQueue, whose get takes the newest entry.
QPutLifo(q, x) == <<x>> \o q

\* A variant of QGet: the get empties the queue.
QGetDrain(q) == <<>>

\* queue.Queue: put appends, get takes the oldest, qsize is the length.
QPut(q, x) == Append(q, x)
QGet(q) == Tail(q)
QSize(q) == Len(q)

(***************************************************************************)
(* Initial state: the module has been imported: the table exists and is    *)
(* empty, the worker thread waits on the queue, the observer runs, and     *)
(* uvicorn serves.                                                         *)
(***************************************************************************)
NoResp == [kind |-> "none"]
NoLoc == [total |-> NoInt, ok |-> NoInt, failed |-> NoInt]
NoRes == [lines |-> NoInt, word_count |-> NoInt]

\* ops and raises: what the environment and the store may still do.
Start(ops, raises) ==
    /\ fs = [n \in Names |-> Absent]
    /\ evq = <<>>
    /\ observing = TRUE
    /\ epc = "idle"
    /\ epath = None
    /\ start_size = NoInt
    /\ file_queue = <<>>
    /\ wpc = "get"
    /\ wpath = None
    /\ werr = NoStr
    /\ wres = NoRes
    /\ rows = <<>>
    /\ clock = 1
    /\ faultsleft = raises
    /\ mpc = "serving"
    /\ spc = "idle"
    /\ sloc = NoLoc
    /\ resp = NoResp
    /\ fsleft = ops
    /\ puts = <<>>
    /\ gets = <<>>
    /\ acks = 0
    /\ stable = <<>>

Init == Start(MaxFsOps, MaxFaults)

observerVars == <<epc, epath, start_size>>
workerVars == <<wpc, wpath, werr, wres>>
httpVars == <<spc, sloc, resp>>
histVars == <<puts, gets, acks, stable>>

(***************************************************************************)
(* The environment: what happens in the watched directory. The observer's  *)
(* emitter turns each creation, move and deletion into an event while the  *)
(* observer runs.                                                          *)
(***************************************************************************)
Event(kind, src, dest, isdir) ==
    [kind |-> kind, src_path |-> src, dest_path |-> dest, is_directory |-> isdir]

Emit(e) == IF observing THEN Append(evq, e) ELSE evq

FsFrame == UNCHANGED <<observing, observerVars, file_queue, workerVars, rows, clock,
                       faultsleft, mpc, httpVars, histVars>>

FsCreate(n, c) ==
    /\ fsleft > 0
    /\ fs[n].kind = "absent"
    /\ fs' = [fs EXCEPT ![n] = File(c)]
    /\ evq' = Emit(Event("created", PathOf(n), None, FALSE))
    /\ fsleft' = fsleft - 1
    /\ FsFrame

FsMkdir(n) ==
    /\ fsleft > 0
    /\ fs[n].kind = "absent"
    /\ fs' = [fs EXCEPT ![n] = Dir]
    /\ evq' = Emit(Event("created", PathOf(n), None, TRUE))
    /\ fsleft' = fsleft - 1
    /\ FsFrame

\* More bytes are written to a file. The handler class overrides no on_modified.
FsAppend(n) ==
    /\ fsleft > 0
    /\ fs[n].kind = "file"
    /\ fs[n].data \in Contents
    /\ fs' = [fs EXCEPT ![n] = File(Grown(fs[n].data))]
    /\ fsleft' = fsleft - 1
    /\ UNCHANGED evq
    /\ FsFrame

FsDelete(n) ==
    /\ fsleft > 0
    /\ fs[n].kind # "absent"
    /\ fs' = [fs EXCEPT ![n] = Absent]
    /\ evq' = Emit(Event("deleted", PathOf(n), None, fs[n].kind = "dir"))
    /\ fsleft' = fsleft - 1
    /\ FsFrame

FsMove(src, dst) ==
    /\ fsleft > 0
    /\ src # dst
    /\ fs[src].kind # "absent"
    /\ fs[dst].kind = "absent"
    /\ fs' = [fs EXCEPT ![src] = Absent, ![dst] = fs[src]]
    /\ evq' = Emit(Event("moved", PathOf(src), PathOf(dst), fs[src].kind = "dir"))
    /\ fsleft' = fsleft - 1
    /\ FsFrame

(***************************************************************************)
(* The observer thread: it dispatches one event at a time to the handler,  *)
(* and the handler runs try_size, sleep included, on that thread.          *)
(***************************************************************************)
ObsFrame == UNCHANGED <<fs, observing, workerVars, rows, clock, faultsleft, mpc,
                        httpVars, fsleft, gets, acks>>

\* try_size up to time.sleep(2): the filter and the first size read.
TrySizeBegin(path) ==
    IF PassesFilter(path) /\ ~SizeFails(fs, path)
    THEN /\ epc' = "sleep"
         /\ epath' = path
         /\ start_size' = GetSize(fs, path)
    ELSE UNCHANGED observerVars

Dispatch(kind) ==
    /\ observing
    /\ epc = "idle"
    /\ evq # <<>>
    /\ Head(evq).kind = kind
    /\ evq' = Tail(evq)

OnCreated ==
    /\ Dispatch("created")
    /\ IF ~Head(evq).is_directory
       THEN TrySizeBegin(Head(evq).src_path)
       ELSE UNCHANGED observerVars
    /\ UNCHANGED <<file_queue, puts, stable>>
    /\ ObsFrame

OnMoved ==
    /\ Dispatch("moved")
    /\ IF ~Head(evq).is_directory
       THEN TrySizeBegin(Head(evq).dest_path)
       ELSE UNCHANGED observerVars
    /\ UNCHANGED <<file_queue, puts, stable>>
    /\ ObsFrame

\* on_deleted prints the event.
OnDeleted ==
    /\ Dispatch("deleted")
    /\ UNCHANGED <<observerVars, file_queue, puts, stable>>
    /\ ObsFrame

\* The path of the event being handled is a created or moved, non-directory
\* path named test_<digits>.txt whose two size reads succeed and agree.
QualifiesStable ==
    /\ FullPattern(Basename(epath))
    /\ fs[NameOf(epath)].kind # "absent"
    /\ Len(fs[NameOf(epath)].data) = start_size

\* try_size from the end of time.sleep(2): the second size read, the comparison
\* and the put.
TrySizeEnd ==
    /\ epc = "sleep"
    /\ IF ~SizeFails(fs, epath) /\ Stabilized(start_size, GetSize(fs, epath))
       THEN /\ file_queue' = QPut(file_queue, epath)
            /\ puts' = Append(puts, epath)
       ELSE UNCHANGED <<file_queue, puts>>
    /\ stable' = IF QualifiesStable THEN Append(stable, epath) ELSE stable
    /\ epc' = "idle"
    /\ epath' = None
    /\ start_size' = NoInt
    /\ UNCHANGED evq
    /\ ObsFrame

(***************************************************************************)
(* The worker thread.                                                      *)
(***************************************************************************)
WorkerFrame == UNCHANGED <<fs, evq, observing, observerVars, mpc, httpVars, fsleft,
                           puts, stable>>

\* Line 157 and lines 160-162: file_queue.get(timeout=5) returns the oldest
\* entry, and the worker opens and reads the file, or the open or a read raises.
\* Nothing of the worker is visible to another thread between the get and the
\* read, so the two are one step.
WorkerGet ==
    /\ wpc = "get"
    /\ file_queue # <<>>
    /\ file_queue' = QGet(file_queue)
    /\ gets' = Append(gets, Head(file_queue))
    /\ wpath' = Head(file_queue)
    /\ IF OpenError(fs, Head(file_queue)) = NoStr
       THEN /\ wres' = ReadFile(fs[NameOf(Head(file_queue))].data)
            /\ wpc' = "insert_ok"
            /\ UNCHANGED werr
       ELSE /\ werr' = OpenError(fs, Head(file_queue))
            /\ wpc' = "insert_failed"
            /\ UNCHANGED wres
    /\ UNCHANGED <<rows, clock, faultsleft, acks>>
    /\ WorkerFrame

\* file_queue.get(timeout=5) finds the queue empty and raises queue.Empty.
WorkerTimeout ==
    /\ wpc = "get"
    /\ file_queue = <<>>
    /\ wpc' = "empty"
    /\ UNCHANGED <<file_queue, wpath, werr, wres, rows, clock, faultsleft, gets, acks>>
    /\ WorkerFrame

\* Lines 173-175: the handler of queue.Empty logs, and the loop continues.
WorkerIdle ==
    /\ wpc = "empty"
    /\ wpc' = "get"
    /\ UNCHANGED <<file_queue, wpath, werr, wres, rows, clock, faultsleft, gets, acks>>
    /\ WorkerFrame

\* Line 164: inserting(path, "OK", lines, word_count) commits.
WorkerInsertOk ==
    /\ wpc = "insert_ok"
    /\ rows' = Inserting(rows, clock, wpath, "OK", wres.lines, wres.word_count, NoStr)
    /\ clock' = clock + 1
    /\ wpc' = "task_done"
    /\ UNCHANGED <<file_queue, wpath, werr, wres, faultsleft, gets, acks>>
    /\ WorkerFrame

\* Line 164 raises a sqlite3 error: it is raised inside the inner try, so the
\* except branch of line 166 handles it.
WorkerInsertOkRaises ==
    /\ wpc = "insert_ok"
    /\ faultsleft > 0
    /\ faultsleft' = faultsleft - 1
    /\ clock' = clock + 1
    /\ werr' = "database is locked"
    /\ wres' = NoRes
    /\ wpc' = "insert_failed"
    /\ UNCHANGED <<file_queue, wpath, rows, gets, acks>>
    /\ WorkerFrame

\* Lines 167-168: inserting(path, "FAILED", error=str(e)) commits.
WorkerInsertFailed ==
    /\ wpc = "insert_failed"
    /\ rows' = Inserting(rows, clock, wpath, "FAILED", NoInt, NoInt, werr)
    /\ clock' = clock + 1
    /\ wpc' = "task_done"
    /\ UNCHANGED <<file_queue, wpath, werr, wres, faultsleft, gets, acks>>
    /\ WorkerFrame

\* A variant of WorkerInsertFailedRaises: the error raised in the except branch
\* is caught by nothing and ends the thread.
WorkerInsertFailedRaisesUncaught ==
    /\ wpc = "insert_failed"
    /\ faultsleft > 0
    /\ faultsleft' = faultsleft - 1
    /\ clock' = clock + 1
    /\ wpc' = "crashed"
    /\ UNCHANGED <<file_queue, wpath, werr, wres, rows, gets, acks>>
    /\ WorkerFrame

\* Line 168 raises a sqlite3 error: it leaves the except branch, the handler of
\* line 176 logs it, and the loop continues.
WorkerInsertFailedRaises ==
    /\ wpc = "insert_failed"
    /\ faultsleft > 0
    /\ faultsleft' = faultsleft - 1
    /\ clock' = clock + 1
    /\ wpc' = "get"
    /\ wpath' = None
    /\ werr' = NoStr
    /\ wres' = NoRes
    /\ UNCHANGED <<file_queue, rows, gets, acks>>
    /\ WorkerFrame

\* Lines 170-171 and line 172: file_queue.task_done(), and back to the get.
WorkerTaskDone ==
    /\ wpc = "task_done"
    /\ acks' = acks + 1
    /\ wpc' = "get"
    /\ wpath' = None
    /\ werr' = NoStr
    /\ wres' = NoRes
    /\ UNCHANGED <<file_queue, rows, clock, faultsleft, gets>>
    /\ WorkerFrame

(***************************************************************************)
(* The main thread: uvicorn.run, and the shutdown block on                 *)
(* KeyboardInterrupt. worker_thread.join() returns when worker() returns;  *)
(* worker() is a while True loop with no break and no return, so the main  *)
(* thread has no step after it starts to wait at "join_worker".            *)
(***************************************************************************)
MainFrame == UNCHANGED <<fs, observerVars, workerVars, rows, clock, faultsleft,
                         httpVars, fsleft, gets, acks, stable>>

\* KeyboardInterrupt leaves uvicorn.run, and observer.stop() ends the dispatch
\* loop and the emitter: the events still queued are never dispatched. A handler
\* that is running goes on to its end.
MainObserverStop ==
    /\ mpc = "serving"
    /\ spc = "idle"
    /\ resp = NoResp
    /\ observing' = FALSE
    /\ evq' = <<>>
    /\ mpc' = "put_sentinel"
    /\ UNCHANGED <<file_queue, puts>>
    /\ MainFrame

MainPutSentinel ==
    /\ mpc = "put_sentinel"
    /\ file_queue' = QPut(file_queue, None)
    /\ puts' = Append(puts, None)
    /\ mpc' = "join_worker"
    /\ UNCHANGED <<observing, evq>>
    /\ MainFrame

(***************************************************************************)
(* The HTTP handlers, run while uvicorn serves. resp is the response the   *)
(* handler returns; Respond sends it to the client.                        *)
(***************************************************************************)
HttpFrame == UNCHANGED <<fs, evq, observing, observerVars, file_queue, workerVars,
                         rows, clock, faultsleft, mpc, fsleft, histVars>>

Accepting == mpc = "serving" /\ spc = "idle" /\ resp = NoResp

Health ==
    /\ Accepting
    /\ resp' = [kind |-> "health", status |-> "ok"]
    /\ UNCHANGED <<spc, sloc>>
    /\ HttpFrame

\* The limit of the /files handler.
FilesLimit == 20

\* /files returns last_files(20); last_files takes any limit.
Files ==
    /\ Accepting
    /\ \E limit \in (0..MaxLimit) \cup {FilesLimit} :
         resp' = [kind |-> "files", limit |-> limit, records |-> LastFiles(rows, limit)]
    /\ UNCHANGED <<spc, sloc>>
    /\ HttpFrame

StatsTotal ==
    /\ Accepting
    /\ sloc' = [sloc EXCEPT !.total = CountAll(rows)]
    /\ spc' = "ok"
    /\ UNCHANGED resp
    /\ HttpFrame

StatsOk ==
    /\ spc = "ok"
    /\ sloc' = [sloc EXCEPT !.ok = CountOk(rows)]
    /\ spc' = "failed"
    /\ UNCHANGED resp
    /\ HttpFrame

StatsFailed ==
    /\ spc = "failed"
    /\ sloc' = [sloc EXCEPT !.failed = CountFailed(rows)]
    /\ spc' = "qsize"
    /\ UNCHANGED resp
    /\ HttpFrame

\* set_stats adds the queue's size and returns.
SetStatsReturn ==
    /\ spc = "qsize"
    /\ resp' = [kind |-> "stats", total |-> sloc.total, ok |-> sloc.ok,
                failed |-> sloc.failed, queued |-> QSize(file_queue)]
    /\ sloc' = NoLoc
    /\ spc' = "idle"
    /\ HttpFrame

Respond ==
    /\ resp # NoResp
    /\ resp' = NoResp
    /\ UNCHANGED <<spc, sloc>>
    /\ HttpFrame

(***************************************************************************)
(* The system.                                                             *)
(***************************************************************************)
Environment ==
    \/ \E n \in Names, c \in Contents : FsCreate(n, c)
    \/ \E n \in Names : FsMkdir(n)
    \/ \E n \in Names : FsAppend(n)
    \/ \E n \in Names : FsDelete(n)
    \/ \E src \in Names, dst \in Names : FsMove(src, dst)

Observer == OnCreated \/ OnMoved \/ OnDeleted \/ TrySizeEnd

Worker ==
    \/ WorkerGet
    \/ WorkerTimeout
    \/ WorkerIdle
    \/ WorkerInsertOk
    \/ WorkerInsertOkRaises
    \/ WorkerInsertFailed
    \/ WorkerInsertFailedRaises
    \/ WorkerTaskDone

Main == MainObserverStop \/ MainPutSentinel

Http == Health \/ Files \/ StatsTotal \/ StatsOk \/ StatsFailed \/ SetStatsReturn \/ Respond

\* The pipeline and the shutdown.
Next == Environment \/ Observer \/ Worker \/ Main

Spec == Init /\ [][Next]_vars

\* The pipeline under HTTP requests, with a store that raises nothing.
InitHttp == Start(MaxHttpFsOps, 0)

NextHttp ==
    \/ Environment
    \/ Observer
    \/ WorkerGet \/ WorkerTimeout \/ WorkerIdle
    \/ WorkerInsertOk \/ WorkerInsertFailed \/ WorkerTaskDone
    \/ Http

SpecHttp == InitHttp /\ [][NextHttp]_vars

\* The pipeline and the shutdown with a store that raises nothing and a worker
\* thread that is scheduled.
InitLive == Start(MaxLiveFsOps, 0)

WorkerLive ==
    \/ WorkerGet
    \/ WorkerTimeout
    \/ WorkerIdle
    \/ WorkerInsertOk
    \/ WorkerInsertFailed
    \/ WorkerTaskDone

NextLive == Environment \/ Observer \/ WorkerLive \/ Main

SpecLive == InitLive /\ [][NextLive]_vars /\ WF_vars(WorkerLive)

\* Every thread is scheduled: a step of a thread that stays possible is taken.
FairSpec == Spec /\ WF_vars(Observer) /\ WF_vars(Worker) /\ WF_vars(Main)

(***************************************************************************)
(* Properties.                                                             *)
(***************************************************************************)
Count(seq, x) == Cardinality({k \in 1..Len(seq) : seq[k] = x})
Last(seq) == seq[Len(seq)]

\* C1: the table holds at most one row per path, whatever upserts the worker
\* has made.
C1_OneRowPerPath ==
    \A i, j \in 1..Len(rows) : rows[i].path = rows[j].path => i = j

\* C2: once the shutdown block has put the sentinel on the queue, the worker
\* gets it and leaves its loop, and the main thread gets past
\* worker_thread.join() to the end of the shutdown block.
C2_ShutdownCompletes ==
    (mpc = "join_worker") ~>
        (/\ Count(gets, None) > 0
         /\ wpc = "returned"
         /\ mpc = "stopped")

\* C3: a file that is read successfully gets lines = the number of lines of its
\* content and word_count = the number of whitespace-delimited tokens of that
\* content, and the row written for it has status OK and these two counts.
C3_OkRecordCounts ==
    [][/\ (wpc = "get" /\ wpc' = "insert_ok") =>
            LET c == fs[NameOf(wpath')].data
            IN  /\ wres'.lines = CountLines(c)
                /\ wres'.word_count = CountWords(c)
       /\ (wpc = "insert_ok" /\ wpc' = "task_done") =>
            /\ Len(rows') = Len(rows) + 1
            /\ Last(rows').path = wpath
            /\ Last(rows').status = "OK"
            /\ Last(rows').lines = wres.lines
            /\ Last(rows').word_count = wres.word_count]_vars

\* C4: every row's path, and every value ever put on the queue, has a base name
\* of the form test_<digits>.txt.
C4_OnlyMatchingPaths ==
    /\ \A i \in 1..Len(rows) : FullPattern(Basename(rows[i].path))
    /\ \A k \in 1..Len(puts) : FullPattern(Basename(puts[k]))

\* C5: for every path named test_<digits>.txt, the number of times it was put on
\* the queue equals the number of created or moved events for it whose two size
\* reads succeeded and agreed.
C5_OneEnqueuePerStableEvent ==
    \A p \in Paths :
        FullPattern(Basename(p)) => Count(puts, p) = Count(stable, p)

C5_Witness ==
    /\ Count(puts, PathOf(Name1)) = 2
    /\ Count(stable, PathOf(Name1)) = 2

\* The second size read of the check in progress fails or differs from the first.
Abandoning ==
    /\ epc = "sleep"
    /\ \/ fs[NameOf(epath)].kind = "absent"
       \/ Len(fs[NameOf(epath)].data) # start_size

\* C6: a check that is abandoned at its second read puts nothing on the queue,
\* writes no row and returns to the dispatch loop with no check left pending;
\* an event whose first size read fails does the same; and a path is put on the
\* queue only by the check of an event for that path whose two reads agreed.
C6_AbandonedNotEnqueued ==
    [][/\ (Abandoning /\ epc' = "idle") =>
            /\ file_queue' = file_queue
            /\ puts' = puts
            /\ rows' = rows
            /\ epath' = None
       /\ (epc = "idle" /\ observing' /\ evq # <<>> /\ evq' = Tail(evq)
           /\ Head(evq).kind \in {"created", "moved"}
           /\ fs[NameOf(IF Head(evq).kind = "moved" THEN Head(evq).dest_path
                                                     ELSE Head(evq).src_path)].kind = "absent") =>
            /\ file_queue' = file_queue
            /\ puts' = puts
            /\ rows' = rows
            /\ epc' = "idle"
       /\ (puts' # puts /\ Last(puts') # None) =>
            /\ epc = "sleep"
            /\ ~Abandoning
            /\ puts' = Append(puts, epath)]_vars

\* The created event of test_1.txt was dispatched while the file was there, the
\* file grew during the sleep, and nothing was ever put on the queue.
C6_Witness ==
    /\ observing
    /\ fsleft = MaxFsOps - 2
    /\ fs[Name1] = File(Grown(ContentAB))
    /\ fs[NameNotes] = Absent
    /\ fs[NameNewline] = Absent
    /\ evq = <<>>
    /\ epc = "idle"
    /\ puts = <<>>
    /\ rows = <<>>

\* The file of a path cannot be opened or read as UTF-8 text.
Unreadable(f, path) ==
    \/ path = None
    \/ f[NameOf(path)].kind # "file"
    \/ \E i \in 1..Len(f[NameOf(path)].data) : f[NameOf(path)].data[i] = "\\xff"

\* C7: when the worker gets a path whose file cannot be opened or read, it goes
\* to write a FAILED record with the failure's message; the record it writes is
\* for that path, FAILED, with that message; and no step of the worker puts a
\* path on the queue.
C7_UnreadableRecordedFailed ==
    [][/\ (wpc = "get" /\ wpc' \in {"insert_ok", "insert_failed"}
           /\ Unreadable(fs, Head(file_queue))) =>
            /\ wpc' = "insert_failed"
            /\ wpath' = Head(file_queue)
            /\ werr' # NoStr
            /\ werr' = OpenError(fs, Head(file_queue))
            /\ file_queue' = Tail(file_queue)
       /\ (wpc = "insert_failed" /\ wpc' = "task_done") =>
            /\ Len(rows') = Len(rows) + 1
            /\ Last(rows').path = wpath
            /\ Last(rows').status = "FAILED"
            /\ Last(rows').error = werr
            /\ file_queue' = file_queue
       /\ (wpc' # wpc) => puts' = puts]_vars

\* test_1.txt was deleted after it was enqueued: its row is FAILED with the
\* file-not-found message, and the queue is empty again.
C7_Witness ==
    /\ \E i \in 1..Len(rows) :
          /\ rows[i].path = PathOf(Name1)
          /\ rows[i].status = "FAILED"
          /\ rows[i].error = "[Errno 2] No such file or directory"
    /\ file_queue = <<>>
    /\ wpc = "get"

\* C8: the number of rows equals the number of OK rows plus the number of
\* FAILED rows.
C8_TotalIsOkPlusFailed ==
    CountAll(rows) = CountOk(rows) + CountFailed(rows)

C8_Witness ==
    /\ CountOk(rows) > 0
    /\ CountFailed(rows) > 0
    /\ wpc = "get"

\* C9: the queued value that /stats returns is the number of values put on the
\* queue so far minus the number the worker has got so far.
C9_QueuedIsPutsMinusGets ==
    [][(spc = "qsize" /\ spc' = "idle") =>
            /\ resp'.kind = "stats"
            /\ resp'.queued = Len(puts) - Len(gets)]_vars

\* /stats has answered 1 while one path waits on the queue and the worker is
\* at work on the path it got before.
C9_Witness ==
    /\ resp.kind = "stats"
    /\ resp.queued = 1
    /\ Len(puts) = 2
    /\ Len(gets) = 1
    /\ Len(file_queue) = 1
    /\ wpc \in {"insert_ok", "insert_failed"}

\* The time a row was inserted or last updated.
Recency(r) == IF r.processed_at > r.created_at THEN r.processed_at ELSE r.created_at

\* C10: last_files(limit) returns at most limit rows, newest first, and no row
\* it leaves out is newer than a row it returns; it returns limit rows when the
\* table has that many.
C10_LastFilesNewestFirst ==
    [][(resp.kind # "files" /\ resp'.kind = "files") =>
            LET recs == resp'.records
                returned == {recs[k].id : k \in 1..Len(recs)}
            IN  /\ Len(recs) <= resp'.limit
                /\ Len(recs) = IF Len(rows) < resp'.limit THEN Len(rows) ELSE resp'.limit
                /\ \A k \in 1..Len(recs) : \E i \in 1..Len(rows) : rows[i] = recs[k]
                /\ \A k \in 1..(Len(recs) - 1) : Recency(recs[k]) > Recency(recs[k + 1])
                /\ \A i \in 1..Len(rows) :
                      rows[i].id \notin returned =>
                          \A k \in 1..Len(recs) : Recency(rows[i]) < Recency(recs[k])]_vars

\* Two files were processed, and the request with limit 1 returned the row
\* written last.
C10_Witness ==
    /\ resp.kind = "files"
    /\ resp.limit = 1
    /\ Len(rows) = 2
    /\ resp.records = <<rows[2]>>
    /\ rows[2].created_at > rows[1].created_at

\* C11: when the worker writes the record of a path that already has a row, the
\* table gets no new row, every row keeps its id, path and created_at, and the
\* rows of that path take the new status.
C11_CreatedAtKept ==
    [][(rows' # rows /\ \E i \in 1..Len(rows) : rows[i].path = wpath) =>
            /\ Len(rows') = Len(rows)
            /\ \A i \in 1..Len(rows) :
                  /\ rows'[i].id = rows[i].id
                  /\ rows'[i].path = rows[i].path
                  /\ rows'[i].created_at = rows[i].created_at
                  /\ rows[i].path = wpath =>
                        rows'[i].status = IF wpc = "insert_ok" THEN "OK" ELSE "FAILED"]_vars

\* The positions of the worker inside its while True loop.
LoopPositions == {"get", "empty", "insert_ok", "insert_failed", "task_done"}

\* C12: the worker stays in its loop: after a queue timeout, after a processed
\* or failed item and after a store error raised in the except branch its next
\* position is the get; a store error raised by the OK write is handled as a
\* failure of the item; and it is outside the loop only after it got the
\* sentinel.
C12_WorkerStaysInLoop ==
    [][/\ wpc' \in LoopPositions \/ Count(gets', None) > 0
       /\ (wpc = "empty" /\ wpc' # wpc) => wpc' = "get"
       /\ (wpc = "task_done" /\ wpc' # wpc) => wpc' = "get"
       /\ (wpc = "insert_failed" /\ wpc' # wpc) =>
            \/ rows' # rows /\ wpc' = "task_done"
            \/ rows' = rows /\ wpc' = "get"
       /\ (wpc = "insert_ok" /\ wpc' # wpc) =>
            \/ rows' # rows /\ wpc' = "task_done"
            \/ rows' = rows /\ wpc' = "insert_failed"]_vars

\* The store raised while the worker wrote the FAILED record of the only item
\* it got, a path, and the worker waits on the queue again.
C12_Witness ==
    /\ faultsleft < MaxFaults
    /\ Len(gets) = 1
    /\ gets[1] # None
    /\ rows = <<>>
    /\ acks = 0
    /\ wpc = "get"

\* C13: whenever the worker waits on the queue, the number of task_done calls
\* equals the number of entries it has got; it is never larger.
C13_AckPerGet ==
    /\ acks <= Len(gets)
    /\ wpc \in {"get", "empty"} => acks = Len(gets)

\* The paths of the rows in the order they were written, and: a is b with some
\* entries left out.
RowPaths(t) == [i \in 1..Len(t) |-> t[i].path]

RECURSIVE IsSubseq(_, _)
IsSubseq(a, b) ==
    IF a = <<>> THEN TRUE
    ELSE IF b = <<>> THEN FALSE
    ELSE IF Head(a) = Head(b) THEN IsSubseq(Tail(a), Tail(b))
    ELSE IsSubseq(a, Tail(b))

\* C14: the worker takes the entries in the order they were put, works on the
\* entry it took last, and so writes the records in enqueue order.
C14_FifoOrder ==
    /\ Len(gets) <= Len(puts)
    /\ gets = SubSeq(puts, 1, Len(gets))
    /\ wpc \in {"insert_ok", "insert_failed", "task_done"} => wpath = Last(gets)
    /\ IsSubseq(RowPaths(rows), gets)

\* Two different paths were enqueued and their records written, the record of
\* the first before the record of the second.
C14_Witness ==
    /\ Len(puts) >= 2
    /\ Len(rows) >= 2
    /\ puts[1] # None
    /\ puts[2] # None
    /\ puts[1] # puts[2]
    /\ rows[1].path = puts[1]
    /\ rows[2].path = puts[2]

\* C15: while the observer runs and the stabilization check of one event waits
\* between its two size reads, the handler of a pending event can start.
C15_DeliveryNotStalled ==
    (observing /\ epc = "sleep" /\ evq # <<>>) =>
        ENABLED (OnCreated \/ OnMoved \/ OnDeleted)

\* C16: in every row lines and word_count are set only when status is OK, error
\* only when status is FAILED, and processed_at only when status is OK.
C16_RowShape ==
    \A i \in 1..Len(rows) :
        /\ rows[i].status \in {"OK", "FAILED"}
        /\ rows[i].lines # NoInt => rows[i].status = "OK"
        /\ rows[i].word_count # NoInt => rows[i].status = "OK"
        /\ rows[i].error # NoStr => rows[i].status = "FAILED"
        /\ rows[i].processed_at # NoInt => rows[i].status = "OK"

\* The table holds an OK row with its counts and processed_at, and a FAILED row
\* with its error.
C16_Witness ==
    /\ \E i \in 1..Len(rows) :
           /\ rows[i].status = "OK"
           /\ rows[i].lines # NoInt
           /\ rows[i].word_count # NoInt
           /\ rows[i].processed_at # NoInt
    /\ \E i \in 1..Len(rows) :
           /\ rows[i].status = "FAILED"
           /\ rows[i].error # NoStr

\* The messages of the errors that opening, reading and decoding a file raise.
ReadErrors ==
    {"TypeError: expected str, bytes or os.PathLike object, not NoneType",
     "[Errno 2] No such file or directory",
     "[Errno 21] Is a directory",
     "'utf-8' codec can't decode byte 0xff"}

\* C17: a FAILED record is written only for a file that could not be opened,
\* read or decoded: the error of every FAILED row is such an error, never the
\* error the store raised for the OK write of a file that was read.
C17_FailedOnlyForReadErrors ==
    \A i \in 1..Len(rows) : rows[i].status = "FAILED" => rows[i].error \in ReadErrors

\* Every entry put is in the queue or was got, once and in order; every entry
\* got has one row, written before the worker waits again.
OneWritePerEntry ==
    /\ puts = gets \o file_queue
    /\ Len(rows) <= Len(gets)
    /\ RowPaths(rows) = SubSeq(gets, 1, Len(rows))
    /\ wpc \in {"get", "empty", "task_done"} => Len(rows) = Len(gets)
    /\ wpc \in {"insert_ok", "insert_failed"} => Len(rows) = Len(gets) - 1

\* C18: with a scheduled worker and a store that raises nothing, every entry
\* put on the queue is got exactly once and eventually has exactly one record
\* written for its path: the k-th entry put gets the k-th row.
C18_EveryEntryProcessedOnce ==
    /\ []OneWritePerEntry
    /\ \A k \in 1..(MaxLiveFsOps + 1) :
          (Len(puts) >= k) ~> (Len(rows) >= k /\ rows[k].path = puts[k])

\* Two paths were enqueued, the queue is empty again, the worker waits, and the
\* table holds one row for each of the two entries.
C18_Witness ==
    /\ Len(puts) = 2
    /\ puts[1] # None
    /\ puts[2] # None
    /\ file_queue = <<>>
    /\ wpc = "get"
    /\ RowPaths(rows) = puts

C20_StatsResponseAddsUp ==
    resp.kind = "stats" => resp.total = resp.ok + resp.failed

====
